---------------------------- MODULE Spec2Model ----------------------------
(***************************************************************************)
(* Model of the Box event skill: the Lambda entry point (index.js) and the *)
(* skills-kit helper library it is built on (FilesReader, SkillsWriter,    *)
(* the representation poller).                                             *)
(*                                                                         *)
(* One behaviour exercises one entry point, chosen in Init (variable op):  *)
(* the handler itself, or one public function of the library called on a   *)
(* reader/writer built from a well-formed event.                           *)
(*                                                                         *)
(* JavaScript values are modelled as strings; the string "undefined"       *)
(* stands for the value undefined (a missing argument or property).        *)
(***************************************************************************)
EXTENDS Integers, Sequences, FiniteSets, TLC

VARIABLES
    op,          \* the entry point this behaviour exercises
    body,        \* the inbound event body (event.body)
    args,        \* the arguments of the library call exercised
    pc,          \* position of the running async function
    ctor,        \* outcome of `new FilesReader(body)`: thrown error and FileContext
    isValid,     \* what Box.validateWebhookMessage gave (index.js line 12)
    calls,       \* outbound calls issued through fileWriteClient, in order
    responses,   \* responses delivered through the Lambda callback, in order
    failed,      \* history: the steps of the handler that raised an error
    repState,    \* the platform's current state of the requested representation
    repInfo,     \* getBasicFormatFileURL: the entry popped from the first answer
    info,        \* pollRepresentationInfo: the body of the latest info response
    pollLog,     \* history: queries, answers and delays of the poll, in order
    result,      \* what the promise of getBasicFormatFileURL settled to
    metadata,    \* handler: documentType of the metadata read at line 59
    returned,    \* what the library function called returned (or resolved to)
    promises,    \* createFacesCard: dataURIPromises, one per processed entry
    callerList   \* the caller's entry list (the objects the caller still holds)

runVars == <<op, body, args, ctor>>
handlerVars == <<isValid, calls, responses, failed, metadata>>
pollVars == <<repState, repInfo, info, pollLog, result>>
libVars == <<returned, promises, callerList>>
vars == <<op, body, args, pc, ctor, isValid, calls, responses, failed,
          repState, repInfo, info, pollLog, result, metadata, returned,
          promises, callerList>>

UNDEF == "undefined"

(***************************************************************************)
(* The inbound event.  A body is either an unparsable string or a JSON     *)
(* value given by the set of property paths present in it.                 *)
(***************************************************************************)
Paths ==
    { "id", "skill", "skill.id",
      "source", "source.id", "source.name", "source.size",
      "token", "token.read", "token.read.access_token",
      "token.write", "token.write.access_token" }

Parent(p) ==
    CASE p \in {"skill.id"} -> "skill"
      [] p \in {"source.id", "source.name", "source.size"} -> "source"
      [] p \in {"token.read", "token.write"} -> "token"
      [] p = "token.read.access_token" -> "token.read"
      [] p = "token.write.access_token" -> "token.write"
      [] OTHER -> p

WellFormed(ps) == \A p \in ps : Parent(p) \in ps

Bodies ==
    { [json |-> "malformed", has |-> {}] }
    \cup { [json |-> j, has |-> ps] :
             j \in {"object", "string"},
             ps \in { q \in SUBSET Paths : WellFormed(q) } }

\* The value an event carries at a path (one fixed value per path).
ValueAt(p) ==
    CASE p = "id" -> "req-1"
      [] p = "skill.id" -> "42"
      [] p = "source.id" -> "file-7"
      [] p = "source.name" -> "plan.PDF"
      [] p = "source.size" -> "2048"
      [] p = "token.read.access_token" -> "read-token"
      [] p = "token.write.access_token" -> "write-token"
      [] OTHER -> "[object]"

\* eventBody.a.b : the value, or undefined when the last property is absent.
Get(b, p) == IF p \in b.has THEN ValueAt(p) ELSE UNDEF

FullBody == [json |-> "object", has |-> Paths]


(***************************************************************************)
(* FilesReader (skills-kit).                                               *)
(***************************************************************************)
SkillsErrorEnum ==
    { "skills_file_processing_error", "skills_invalid_file_size_error",
      "skills_invalid_file_format_error", "skills_invalid_event_error",
      "skills_no_info_found", "skills_invocations_error",
      "skills_external_auth_error", "skills_billing_error",
      "skills_unknown_error" }

FILE_PROCESSING_ERROR == "skills_file_processing_error"
INVALID_EVENT == "skills_invalid_event_error"
UNKNOWN == "skills_unknown_error"

BOX_API_ENDPOINT == "https://api.box.com/2.0"

\* The property reads of the constructor that dereference their parent:
\* eventBody.skill.id.toString(), eventBody.source.*, path.extname(fileName),
\* eventBody.token.read.access_token, eventBody.token.write.access_token.
\* Reading source.id, source.size or an access_token that is absent yields
\* undefined and throws nothing.
Dereferenced ==
    { "skill", "skill.id", "source", "source.name",
      "token", "token.read", "token.write" }

\* The error `new FilesReader(body)` throws, "none" when it returns.
FilesReaderError(b) ==
    IF b.json = "malformed" THEN "SyntaxError"
    ELSE IF ~(Dereferenced \subseteq b.has) THEN "TypeError"
    ELSE "none"

\* FilesReader.prototype.getFileContext on the object the constructor built.
\* (fileFormat and fileType, derived from fileName, are modelled by
\* GetFileFormat and GetFileType and kept apart from this record.)
GetFileContext(b) ==
    [ requestId      |-> Get(b, "id"),
      skillId        |-> Get(b, "skill.id"),
      fileId         |-> Get(b, "source.id"),
      fileName       |-> Get(b, "source.name"),
      fileSize       |-> Get(b, "source.size"),
      fileDownloadURL |->
          << BOX_API_ENDPOINT, "/files/", Get(b, "source.id"),
             "/content?access_token=", Get(b, "token.read.access_token") >>,
      fileReadToken  |-> Get(b, "token.read.access_token"),
      fileWriteToken |-> Get(b, "token.write.access_token") ]

NoContext ==
    [ requestId |-> "", skillId |-> "", fileId |-> "", fileName |-> "",
      fileSize |-> "", fileDownloadURL |-> <<>>, fileReadToken |-> "",
      fileWriteToken |-> "" ]

\* Outcome of the construction: the error thrown and the context obtained.
FilesReader(b) ==
    [ error   |-> FilesReaderError(b),
      built   |-> FilesReaderError(b) = "none",
      context |-> IF FilesReaderError(b) = "none" THEN GetFileContext(b)
                  ELSE NoContext ]

NotConstructed == [error |-> "none", built |-> FALSE, context |-> NoContext]

\* function SkillsWriter(fileContext)
SkillsWriter(fileContext) ==
    [ requestId |-> fileContext.requestId,
      skillId   |-> fileContext.skillId,
      fileId    |-> fileContext.fileId ]

(***************************************************************************)
(* Strings whose characters matter (card titles) are sequences of          *)
(* one-character strings.                                                  *)
(***************************************************************************)
UpperCase ==
    << "A","B","C","D","E","F","G","H","I","J","K","L","M",
       "N","O","P","Q","R","S","T","U","V","W","X","Y","Z" >>
LowerCase ==
    << "a","b","c","d","e","f","g","h","i","j","k","l","m",
       "n","o","p","q","r","s","t","u","v","w","x","y","z" >>

\* String.prototype.toLowerCase
ToLowerCase(s) ==
    [ i \in DOMAIN s |->
        IF \E k \in DOMAIN UpperCase : UpperCase[k] = s[i]
        THEN LowerCase[CHOOSE k \in DOMAIN UpperCase : UpperCase[k] = s[i]]
        ELSE s[i] ]

\* String.prototype.replace(pattern, replacement) with a one-character string
\* pattern: only the first occurrence is replaced.
ReplaceFirst(s, from, to) ==
    IF \E i \in DOMAIN s : s[i] = from
    THEN LET first == CHOOSE i \in DOMAIN s :
                          s[i] = from /\ \A j \in 1..(i - 1) : s[j] # from
         IN  [ i \in DOMAIN s |-> IF i = first THEN to ELSE s[i] ]
    ELSE s

(***************************************************************************)
(* SkillsWriter (skills-kit): enums, validation, card construction.        *)
(***************************************************************************)
SKILLS_SERVICE_TYPE == "service"
SKILLS_METADATA_CARD_TYPE == "skill_card"
SKILLS_METADATA_INVOCATION_TYPE == "skill_invocation"
BASE_PATH == "/skill_invocations"

cardType ==
    [ TRANSCRIPT |-> "transcript", TOPIC |-> "keyword", FACES |-> "timeline",
      STATUS |-> "status", ERROR |-> "error" ]

cardTitle ==
    [ TRANSCRIPT |-> <<"T","r","a","n","s","c","r","i","p","t">>,
      TOPIC      |-> <<"T","o","p","i","c","s">>,
      FACES      |-> <<"F","a","c","e","s">>,
      STATUS     |-> <<"S","t","a","t","u","s">>,
      ERROR      |-> <<"E","r","r","o","r">> ]

usageUnit ==
    [ FILES |-> "files", SECONDS |-> "seconds", PAGES |-> "pages",
      WORDS |-> "words" ]

skillInvocationStatus ==
    [ INVOKED |-> "invoked", PROCESSING |-> "processing",
      PENDING |-> "skills_pending_status",
      TRANSIENT_FAILURE |-> "transient_failure",
      PERMANENT_FAILURE |-> "permanent_failure", SUCCESS |-> "success" ]

\* Object.values(enumName)
ObjectValues(enum) == { enum[k] : k \in DOMAIN enum }

\* validateEnum(inputValue, enumName); the error enum is given as its value set
ValidateEnum(inputValue, values) == inputValue \in values

\* JavaScript truthiness of a string-or-undefined argument
Truthy(v) == v \notin {UNDEF, "null", ""}

\* A usage argument: kind is "undefined", "null" or "object"; a number value
\* is held in tenths (15 is 1.5), so that Number.isInteger is decidable.
NumberValue(tenths) == [type |-> "number", tenths |-> tenths]
StringValue == [type |-> "string", tenths |-> 0]
NoValue == [type |-> UNDEF, tenths |-> 0]

IsInteger(v) == v.type = "number" /\ v.tenths % 10 = 0

NullUsage == [kind |-> "null", unit |-> UNDEF, value |-> NoValue]
UndefinedUsage == [kind |-> UNDEF, unit |-> UNDEF, value |-> NoValue]
DEFAULT_USAGE ==
    [kind |-> "object", unit |-> usageUnit.FILES, value |-> NumberValue(10)]

\* validateUsage(usage)
ValidateUsage(usage) ==
    /\ usage.kind = "object"
    /\ ValidateEnum(usage.unit, ObjectValues(usageUnit))
    /\ IsInteger(usage.value)

\* An optional value: <<>> when absent, <<v>> when present.
Absent == <<>>
Present(v) == <<v>>

\* truthiness of a number or (non-empty) string value
TruthyValue(v) == (v.type = "number" /\ v.tenths # 0) \/ v.type = "string"

\* a string that spells the number tenths/10
NumericString(tenths) == [type |-> "string", tenths |-> tenths]

\* parseFloat: a number is itself, a numeric string the number it spells
ParseFloat(v) == NumberValue(v.tenths)

\* lines 488-490: duration is set only for a truthy argument
FileDuration(optionalfileDuration) ==
    IF TruthyValue(optionalfileDuration)
    THEN Present(ParseFloat(optionalfileDuration))
    ELSE Absent

\* SkillsWriter.prototype.createMetadataCard (created_at, the wall clock at
\* the call, is left out of the card).
CreateMetadataCard(w, type, title, optionalStatus, optionalEntries, optionalfileDuration) ==
    [ type             |-> SKILLS_METADATA_CARD_TYPE,
      skill            |-> [type |-> SKILLS_SERVICE_TYPE, id |-> w.skillId],
      skill_card_type  |-> type,
      skill_card_title |->
          [ code    |-> ReplaceFirst(
                            <<"s","k","i","l","l","s","_">> \o ToLowerCase(title),
                            " ", "_"),
            message |-> title ],
      invocation       |->
          [type |-> SKILLS_METADATA_INVOCATION_TYPE, id |-> w.requestId],
      status           |-> optionalStatus,
      entries          |-> optionalEntries,
      duration         |-> FileDuration(optionalfileDuration) ]

\* A card status object {code, message}; message is undefined when not set.
StatusObj(code, message) == [code |-> code, message |-> message]

\* putData: the one PUT to /skill_invocations/:skillId
PutData(w, putBody) ==
    [ api    |-> "PUT",
      path   |-> <<BASE_PATH, w.skillId>>,
      body   |-> putBody ]

\* a saveDataCards that passes the caller's status on unvalidated
SavedStatus_Unvalidated(optionalStatus) == optionalStatus

\* status chosen by saveDataCards (line 608)
SavedStatus(optionalStatus) ==
    IF ValidateEnum(optionalStatus, ObjectValues(skillInvocationStatus))
    THEN optionalStatus
    ELSE skillInvocationStatus.SUCCESS

\* a saveDataCards that attaches usage whatever the status
SavedUsage_AnyStatus(status, optionalUsage) ==
    IF ValidateUsage(optionalUsage) THEN optionalUsage ELSE DEFAULT_USAGE

\* usage chosen by saveDataCards (lines 609-612)
SavedUsage(status, optionalUsage) ==
    IF status = skillInvocationStatus.SUCCESS
    THEN IF ValidateUsage(optionalUsage) THEN optionalUsage ELSE DEFAULT_USAGE
    ELSE NullUsage

\* SkillsWriter.prototype.saveDataCards: the sequence of calls it issues
SaveDataCards(w, listofDataCardJSONs, optionalStatus, optionalUsage) ==
    << PutData(w,
         [ status |-> SavedStatus(optionalStatus),
           file   |-> [type |-> "file", id |-> w.fileId],
           cards  |-> listofDataCardJSONs,
           usage  |-> SavedUsage(SavedStatus(optionalStatus), optionalUsage) ]) >>

PROCESSING_MESSAGE == "We're preparing to process your file. Please hold on!"

\* SkillsWriter.prototype.saveProcessingCard
SaveProcessingCard(w) ==
    SaveDataCards(w,
        << CreateMetadataCard(w, cardType.STATUS, cardTitle.STATUS,
               StatusObj(skillInvocationStatus.PENDING, PROCESSING_MESSAGE),
               Absent, NoValue) >>,
        skillInvocationStatus.PROCESSING, UndefinedUsage)

\* failureType chosen by saveErrorCard (lines 584-587)
FailureType(optionalFailureType) ==
    IF optionalFailureType = skillInvocationStatus.TRANSIENT_FAILURE
    THEN optionalFailureType
    ELSE skillInvocationStatus.PERMANENT_FAILURE

\* a saveErrorCard that adds the custom message but keeps the error code
ErrorObj_KeepsCode(error, optionalCustomErrorMessage) ==
    StatusObj(IF ValidateEnum(error, SkillsErrorEnum) THEN error ELSE UNKNOWN,
              IF Truthy(optionalCustomErrorMessage)
              THEN optionalCustomErrorMessage ELSE UNDEF)

\* errorObj built by saveErrorCard (lines 588-592)
ErrorObj(error, optionalCustomErrorMessage) ==
    IF Truthy(optionalCustomErrorMessage)
    THEN StatusObj("custom_error", optionalCustomErrorMessage)
    ELSE StatusObj(IF ValidateEnum(error, SkillsErrorEnum) THEN error ELSE UNKNOWN,
                   UNDEF)

\* SkillsWriter.prototype.saveErrorCard
SaveErrorCard(w, error, optionalCustomErrorMessage, optionalFailureType) ==
    SaveDataCards(w,
        << CreateMetadataCard(w, cardType.STATUS, cardTitle.ERROR,
               ErrorObj(error, optionalCustomErrorMessage), Absent, NoValue) >>,
        FailureType(optionalFailureType), UndefinedUsage)

(***************************************************************************)
(* File format and file type (getFileFormat, getFileType).                 *)
(***************************************************************************)
FileType == [ AUDIO |-> "AUDIO", VIDEO |-> "VIDEO", IMAGE |-> "IMAGE",
              DOCUMENT |-> "DOCUMENT" ]

boxVideoFormats ==
    {
      <<"3","g","2">>, <<"3","g","p">>, <<"a","v","i">>, <<"f","l","v">>,
      <<"m","2","v">>, <<"m","2","t","s">>, <<"m","4","v">>,
      <<"m","k","v">>, <<"m","o","v">>, <<"m","p","4">>,
      <<"m","p","e","g">>, <<"m","p","g">>, <<"o","g","g">>,
      <<"m","t","s">>, <<"q","t">>, <<"t","s">>, <<"w","m","v">> }

boxAudioFormats ==
    {
      <<"a","a","c">>, <<"a","i","f">>, <<"a","i","f","c">>,
      <<"a","i","f","f">>, <<"a","m","r">>, <<"a","u">>,
      <<"f","l","a","c">>, <<"m","4","a">>, <<"m","p","3">>, <<"r","a">>,
      <<"w","a","v">>, <<"w","m","a">> }

boxImageFormats ==
    {
      <<"a","i">>, <<"b","m","p">>, <<"g","i","f">>, <<"e","p","s">>,
      <<"h","e","i","c">>, <<"j","p","e","g">>, <<"j","p","g">>,
      <<"p","n","g">>, <<"p","s">>, <<"p","s","d">>, <<"s","v","g">>,
      <<"t","i","f">>, <<"t","i","f","f">>, <<"d","c","m">>,
      <<"d","i","c","m">>, <<"d","i","c","o","m">>, <<"s","v","s">>,
      <<"t","g","a">> }

Max(S) == CHOOSE i \in S : \A j \in S : j <= i

\* the last portion of the path: what follows its last "/"
BaseName(fileName) ==
    LET slashes == { i \in DOMAIN fileName : fileName[i] = "/" }
    IN  IF slashes = {} THEN fileName
        ELSE SubSeq(fileName, Max(slashes) + 1, Len(fileName))

\* path.extname: from the last "." of the last portion of the path to its
\* end; empty when that portion has no ".", when its only "." is its first
\* character, or when it is ".."
ExtName(fileName) ==
    LET base == BaseName(fileName)
        dots == { i \in DOMAIN base : base[i] = "." }
    IN  IF dots = {} \/ Max(dots) = 1 \/ base = <<".", ".">> THEN <<>>
        ELSE SubSeq(base, Max(dots), Len(base))

\* lodash trimStart(string, chars): drops the leading characters that are in chars
TrimStart(s, chars) ==
    LET rest == { i \in DOMAIN s : s[i] \notin chars }
    IN  IF rest = {} THEN <<>>
        ELSE SubSeq(s, CHOOSE i \in rest : \A j \in rest : i <= j, Len(s))

\* getFileFormat(fileName)
GetFileFormat(fileName) == TrimStart(ToLowerCase(ExtName(fileName)), {"."})

\* a getFileType without the image check
GetFileType_NoImage(fileFormat) ==
    IF fileFormat \in boxAudioFormats THEN FileType.AUDIO
    ELSE IF fileFormat \in boxVideoFormats THEN FileType.VIDEO
    ELSE FileType.DOCUMENT

\* getFileType(fileFormat)
GetFileType(fileFormat) ==
    IF fileFormat \in boxAudioFormats THEN FileType.AUDIO
    ELSE IF fileFormat \in boxImageFormats THEN FileType.IMAGE
    ELSE IF fileFormat \in boxVideoFormats THEN FileType.VIDEO
    ELSE FileType.DOCUMENT

(***************************************************************************)
(* Card entries and their normalisation (processDataList).                 *)
(***************************************************************************)
WhiteSpace == {" ", "\t", "\n"}

\* String.prototype.trim
Trim(s) ==
    LET inner == { i \in DOMAIN s : s[i] \notin WhiteSpace }
    IN  IF inner = {} THEN <<>>
        ELSE SubSeq(s, CHOOSE i \in inner : \A j \in inner : i <= j,
                       CHOOSE i \in inner : \A j \in inner : j <= i)

\* An image_url property: t is its JavaScript type (undefined when the entry
\* has none), v the string's parts.
StringUrl(parts) == [t |-> "string", v |-> parts]
NoUrl == [t |-> UNDEF, v |-> <<>>]
NumberUrl == [t |-> "number", v |-> <<"42">>]

\* An entry {text, image_url, type}; text is Absent or Present(chars), type is
\* undefined until processDataList sets it on its copy.
Entry(text, image_url) ==
    [text |-> text, image_url |-> image_url, type |-> UNDEF]

\* data.text && data.text.trim()  (line 415)
HasText(data) == data.text # Absent /\ Trim(data.text[1]) # <<>>

\* the copy processDataList makes of one entry (lines 424-427)
CardDataCopy(data) ==
    [ data EXCEPT
        !.type = IF data.image_url.t = "string" THEN "image" ELSE "text",
        !.text = Present(Trim(data.text[1])) ]

\* a processDataList that keeps every entry that has a text property
ProcessDataList_NoTrimInFilter(dataList, duration) ==
    LET kept == SelectSeq(dataList, LAMBDA data : data.text \notin {Absent, Present(<<>>)})
    IN  [ i \in DOMAIN kept |-> CardDataCopy(kept[i]) ]

\* processDataList(dataList, duration): the list it returns.  Every call site
\* (lines 501, 515, 523) leaves duration undefined, so the check of
\* data.appears at line 417 is not evaluated.
ProcessDataList(dataList, duration) ==
    LET kept == SelectSeq(dataList, HasText)
    IN  [ i \in DOMAIN kept |-> CardDataCopy(kept[i]) ]

\* the caller's list after processDataList: cloneDeep (line 424) leaves every
\* entry of it as it was
CallerListAfter(dataList) == dataList

\* optionalCardTitle || cardTitle.X
TitleOr(optionalCardTitle, default) ==
    IF optionalCardTitle # Absent /\ optionalCardTitle[1] # <<>>
    THEN optionalCardTitle[1] ELSE default

\* SkillsWriter.prototype.createTopicsCard
CreateTopicsCard(w, topicsDataList, optionalFileDuration, optionalCardTitle) ==
    CreateMetadataCard(w, cardType.TOPIC,
        TitleOr(optionalCardTitle, cardTitle.TOPIC),
        StatusObj(UNDEF, UNDEF),
        Present(ProcessDataList(topicsDataList, NoValue)),
        optionalFileDuration)

\* SkillsWriter.prototype.createTranscriptsCard
CreateTranscriptsCard(w, transcriptsDataList, optionalFileDuration, optionalCardTitle) ==
    CreateMetadataCard(w, cardType.TRANSCRIPT,
        TitleOr(optionalCardTitle, cardTitle.TRANSCRIPT),
        StatusObj(UNDEF, UNDEF),
        Present(ProcessDataList(transcriptsDataList, NoValue)),
        optionalFileDuration)

(***************************************************************************)
(* createFacesCard: thumbnails of the entries' images.                     *)
(***************************************************************************)
\* Object.entries(list): one [key, value] pair per element
ObjectEntries(list) == [ i \in DOMAIN list |-> <<i, list[i]>> ]

\* line 541: faceData.image_url, where faceData is a [key, value] pair of
\* Object.entries: a pair has no image_url property, the read gives undefined
ImageArgument(faceData) == NoUrl

\* The inline PNG of the image at url, resized to 45 x 45 (line 542).
DataURI(url) == StringUrl(<<"data:image/png;base64,", "45x45">> \o url.v)

\* jimp.read(arg).then(resize, encode): what the chain can settle to.  Only a
\* string names an image to fetch; fetching, decoding or resizing it may fail.
JimpOutcomes(arg) ==
    IF arg.t = "string" THEN {"dataURI", "error"} ELSE {"error"}

Pending(arg) == [state |-> "pending", read |-> arg, outcome |-> "none", value |-> NoUrl]

\* a chain without the catch: the failure rejects the promise
Caught_Rethrows(p, outcome) ==
    IF outcome = "dataURI"
    THEN [p EXCEPT !.state = "fulfilled", !.outcome = outcome, !.value = DataURI(p.read)]
    ELSE [p EXCEPT !.state = "rejected", !.outcome = outcome]

\* lines 542-543: the promise pushed to dataURIPromises once the chain
\* settled; .catch(() => undefined) turns a failure into the value undefined
Caught(p, outcome) ==
    IF outcome = "dataURI"
    THEN [p EXCEPT !.state = "fulfilled", !.outcome = outcome, !.value = DataURI(p.read)]
    ELSE [p EXCEPT !.state = "fulfilled", !.outcome = outcome, !.value = NoUrl]

\* lines 536-545: one promise per processed entry
DataURIPromises(facesDataListProcessed) ==
    [ i \in DOMAIN facesDataListProcessed |->
        Pending(ImageArgument(ObjectEntries(facesDataListProcessed)[i])) ]

\* line 550: dataURIs[i] || facesDataListProcessed[i].image_url
AssignBack(facesDataListProcessed, dataURIs) ==
    [ i \in DOMAIN facesDataListProcessed |->
        [ facesDataListProcessed[i] EXCEPT
            !.image_url = IF dataURIs[i].value.t = "string"
                          THEN dataURIs[i].value ELSE @ ] ]

\* SkillsWriter.prototype.createFacesCard: the card the promise resolves to
CreateFacesCard(w, facesDataList, optionalFileDuration, optionalCardTitle, dataURIs) ==
    CreateMetadataCard(w, cardType.FACES,
        TitleOr(optionalCardTitle, cardTitle.FACES),
        StatusObj(UNDEF, UNDEF),
        Present(AssignBack(ProcessDataList(facesDataList, NoValue), dataURIs)),
        optionalFileDuration)

(***************************************************************************)
(* Representation polling (skills-kit): getBasicFormatFileURL and          *)
(* pollRepresentationInfo.                                                 *)
(***************************************************************************)
MaxLog == 11    \* entries of pollLog kept; the poll itself runs on past it

POLL_DELAY_MS == 1000

\* "archived" stands for any state string the code does not know
RepStates == {"none", "pending", "viewable", "success", "error", "archived"}
InProgress == {"none", "pending"}

\* A content URL template is a sequence of parts; the platform hands out one
\* of two.
ASSET_PATH == "{+asset_path}"
Templates ==
    { <<"https://dl.boxcloud.com/api/2.0/internal_files/7/versions/", v,
        "/representations/extracted_text/content/", ASSET_PATH>> :
          v \in {"v1", "v2"} }

\* a representation entry or info body: {status: {state}, content: {url_template}}
Info(state, template) == [state |-> state, template |-> template]
NoInfo == Info(UNDEF, <<>>)

NoResult == [kind |-> "pending", url |-> <<>>, error |-> ""]
Resolved(url) == [kind |-> "resolved", url |-> url, error |-> ""]
Rejected(error) == [kind |-> "rejected", url |-> <<>>, error |-> error]

LogEntry(ev, state, template, ms) ==
    [ev |-> ev, state |-> state, template |-> template, ms |-> ms]
Query(ev) == LogEntry(ev, "", <<>>, 0)
Answer(i) == LogEntry("response", i.state, i.template, 0)
\* Promise.delay(1000)
Delay == LogEntry("delay", "", <<>>, POLL_DELAY_MS)

Logged(entries) ==
    IF Len(pollLog) + Len(entries) <= MaxLog
    THEN pollLog \o entries
    ELSE SubSeq(pollLog \o entries, 1, MaxLog)

\* urlTemplate.parse(t).expand({asset_path: ''}) followed by the token (lines 319-324)
BasicFormatURL(assetURLTemplate, fileReadToken) ==
    SelectSeq(assetURLTemplate, LAMBDA part : part # ASSET_PATH)
        \o <<"?access_token=", fileReadToken>>

\* the switch of getBasicFormatFileURL on the first entry (lines 298-317)
FirstSwitch(state) ==
    CASE state \in {"success", "viewable"} -> "return"
      [] state = "error" -> "throw"
      [] state \in {"none", "pending"} -> "poll"
      [] OTHER -> "throw"

\* a poll that does not know the state none
PollSwitch_NoneUnknown(state) ==
    CASE state \in {"success", "viewable", "error"} -> "return"
      [] state = "pending" -> "delay"
      [] OTHER -> "throw"

\* the switch of pollRepresentationInfo (lines 203-214)
PollSwitch(state) ==
    CASE state \in {"success", "viewable", "error"} -> "return"
      [] state \in {"none", "pending"} -> "delay"
      [] OTHER -> "throw"

\* a caller that returns the template without looking at the polled state
AfterPoll_NoErrorCheck(first, polled, fileReadToken) ==
    Resolved(BasicFormatURL(polled.template, fileReadToken))

\* a caller that takes the template from the entry it first received
AfterPoll_FirstTemplate(first, polled, fileReadToken) ==
    IF polled.state = "error" THEN Rejected(FILE_PROCESSING_ERROR)
    ELSE Resolved(BasicFormatURL(first.template, fileReadToken))

\* what getBasicFormatFileURL makes of the info the poll resolved to
\* (lines 307-313, then 319-324)
AfterPoll(first, polled, fileReadToken) ==
    IF polled.state = "error" THEN Rejected(FILE_PROCESSING_ERROR)
    ELSE Resolved(BasicFormatURL(polled.template, fileReadToken))

(***************************************************************************)
(* Inputs of the library calls exercised.                                  *)
(***************************************************************************)
StatusInputs ==
    ObjectValues(skillInvocationStatus) \cup {"pending", "failed", "", UNDEF}

UsageInputs ==
    { UndefinedUsage, NullUsage }
    \cup { [kind |-> "object", unit |-> u, value |-> v] :
             u \in ObjectValues(usageUnit) \cup {"bytes", UNDEF},
             v \in { NumberValue(10), NumberValue(30), NumberValue(0),
                     NumberValue(15), NumberValue(-20), StringValue, NoValue } }

ErrorInputs == SkillsErrorEnum \cup {"ECONNRESET", "custom_error", UNDEF}

MessageInputs == { UNDEF, "", "Quota exceeded for this enterprise" }

FailureTypeInputs ==
    { UNDEF, "transient_failure", "permanent_failure", "success",
      "TRANSIENT_FAILURE" }

\* the writer the library calls run on: built from a complete event
W == SkillsWriter(GetFileContext(FullBody))

CardListInputs ==
    { <<>>,
      << CreateMetadataCard(W, cardType.TOPIC, cardTitle.TOPIC,
             StatusObj(UNDEF, UNDEF), Present(<<>>), NoValue) >> }

\* nothing returned yet
NoReturn == <<>>

MaxEntries == 2

TitleInputs ==
    { <<"I","c","o","n","s">>,
      <<"M","y"," ","F","a","c","e","s">>,
      <<"M","y"," ","T","o","p"," ","F","a","c","e","s">>,
      <<"A"," "," ","B">>,
      <<" ","K","e","y"," ","W","o","r","d","s"," ">> }

OptionalTitleInputs ==
    { Absent, Present(<<>>), Present(<<"K","e","y"," ","W","o","r","d","s">>) }

DurationInputs == { NoValue, NumberValue(0), NumberValue(1255), NumericString(300) }

ImageUrl1 == StringUrl(<<"https://img.example/", "a.png">>)
ImageUrl2 == StringUrl(<<"https://img.example/", "b.png">>)

EntryInputs ==
    { Entry(Present(<<" ","a"," ","b"," ">>), NoUrl),
      Entry(Present(<<>>), ImageUrl1),
      Entry(Present(<<" ","\t","\n">>), NoUrl),
      Entry(Absent, ImageUrl1),
      Entry(Present(<<"b">>), ImageUrl1),
      Entry(Present(<<"c","\n">>), NumberUrl),
      Entry(Present(<<"\t","d">>), ImageUrl2) }

FileNameInputs ==
    {
      <<"R","E","A","D","M","E">>,
      <<"a","/","b",".","d","/","R","E","A","D","M","E">>,
      <<".","m","p","3">>, <<".",".">>, <<"a",".">>, <<"a",".",".">>,
      <<"c","l","i","p",".","M","P","4">>,
      <<"s","o","n","g",".","M","p","3">>,
      <<"a",".","m","p","3",".","t","x","t">>,
      <<"a",".","t","x","t",".","m","p","3">>, <<"x",".","m","p","3","3">>,
      <<"x",".","m","p">>, <<"a",".","p","d","f">>,
      <<"a",".","b","/","c",".","p","n","g">>, <<"a",".","J","P","E","G">>,
      <<"x",".","m","4","a">>, <<"x",".","m","4","v">>,
      <<"x",".","a","i","f">>, <<"x",".","a","i">>, <<"f",".","3","g","2">>,
      <<"f",".","3","g","p">>, <<"f",".","a","v","i">>,
      <<"f",".","f","l","v">>, <<"f",".","m","2","v">>,
      <<"f",".","m","2","t","s">>, <<"f",".","m","4","v">>,
      <<"f",".","m","k","v">>, <<"f",".","m","o","v">>,
      <<"f",".","m","p","4">>, <<"f",".","m","p","e","g">>,
      <<"f",".","m","p","g">>, <<"f",".","o","g","g">>,
      <<"f",".","m","t","s">>, <<"f",".","q","t">>, <<"f",".","t","s">>,
      <<"f",".","w","m","v">>, <<"f",".","a","a","c">>,
      <<"f",".","a","i","f">>, <<"f",".","a","i","f","c">>,
      <<"f",".","a","i","f","f">>, <<"f",".","a","m","r">>,
      <<"f",".","a","u">>, <<"f",".","f","l","a","c">>,
      <<"f",".","m","4","a">>, <<"f",".","m","p","3">>, <<"f",".","r","a">>,
      <<"f",".","w","a","v">>, <<"f",".","w","m","a">>, <<"f",".","a","i">>,
      <<"f",".","b","m","p">>, <<"f",".","g","i","f">>,
      <<"f",".","e","p","s">>, <<"f",".","h","e","i","c">>,
      <<"f",".","j","p","e","g">>, <<"f",".","j","p","g">>,
      <<"f",".","p","n","g">>, <<"f",".","p","s">>, <<"f",".","p","s","d">>,
      <<"f",".","s","v","g">>, <<"f",".","t","i","f">>,
      <<"f",".","t","i","f","f">>, <<"f",".","d","c","m">>,
      <<"f",".","d","i","c","m">>, <<"f",".","d","i","c","o","m">>,
      <<"f",".","s","v","s">>, <<"f",".","t","g","a">> }

DataListInputs ==
    UNION { [1..n -> EntryInputs] : n \in 0..MaxEntries }

NoArgs ==
    [ cards |-> <<>>, status |-> UNDEF, usage |-> UndefinedUsage,
      error |-> UNDEF, message |-> UNDEF, failureType |-> UNDEF,
      type |-> UNDEF, title |-> Absent, entries |-> Absent, duration |-> NoValue,
      dataList |-> <<>>, fileName |-> <<>> ]

(***************************************************************************)
(* Initial states: one entry point and its inputs.                         *)
(***************************************************************************)
InitHandler ==
    /\ op = "handler"
    /\ body \in Bodies
    /\ args = NoArgs
    /\ ctor = NotConstructed

InitSaveDataCards ==
    /\ op = "saveDataCards"
    /\ body = FullBody
    /\ \E c \in CardListInputs, st \in StatusInputs, u \in UsageInputs :
           args = [NoArgs EXCEPT !.cards = c, !.status = st, !.usage = u]
    /\ ctor = FilesReader(FullBody)

InitSaveProcessingCard ==
    /\ op = "saveProcessingCard"
    /\ body = FullBody
    /\ args = NoArgs
    /\ ctor = FilesReader(FullBody)

InitSaveErrorCard ==
    /\ op = "saveErrorCard"
    /\ body = FullBody
    /\ \E e \in ErrorInputs, m \in MessageInputs, f \in FailureTypeInputs :
           args = [NoArgs EXCEPT !.error = e, !.message = m, !.failureType = f]
    /\ ctor = FilesReader(FullBody)

InitGetBasicFormatFileURL ==
    /\ op = "getBasicFormatFileURL"
    /\ body = FullBody
    /\ args = NoArgs
    /\ ctor = FilesReader(FullBody)
    /\ repState \in RepStates

InitCreateMetadataCard ==
    /\ op = "createMetadataCard"
    /\ body = FullBody
    /\ \E ty \in {cardType.TOPIC, cardType.FACES}, t \in TitleInputs,
          e \in {Absent, Present(<<>>)}, d \in DurationInputs :
           args = [NoArgs EXCEPT !.type = ty, !.title = Present(t),
                                 !.entries = e, !.duration = d]
    /\ ctor = FilesReader(FullBody)

InitCreateListCard ==
    /\ op \in {"createTopicsCard", "createTranscriptsCard"}
    /\ body = FullBody
    /\ \E l \in DataListInputs, t \in OptionalTitleInputs,
          d \in {NoValue, NumberValue(1255)} :
           args = [NoArgs EXCEPT !.dataList = l, !.title = t, !.duration = d]
    /\ ctor = FilesReader(FullBody)

InitFilesReader ==
    /\ op = "FilesReader"
    /\ body = FullBody
    /\ \E n \in FileNameInputs : args = [NoArgs EXCEPT !.fileName = n]
    /\ ctor = NotConstructed

InitCreateFacesCard ==
    /\ op = "createFacesCard"
    /\ body = FullBody
    /\ \E l \in DataListInputs : args = [NoArgs EXCEPT !.dataList = l]
    /\ ctor = FilesReader(FullBody)

Init ==
    /\ \/ InitHandler /\ repState = "none"
       \/ InitCreateFacesCard /\ repState = "none"
       \/ InitFilesReader /\ repState = "none"
       \/ InitCreateMetadataCard /\ repState = "none"
       \/ InitCreateListCard /\ repState = "none"
       \/ InitSaveDataCards /\ repState = "none"
       \/ InitSaveProcessingCard /\ repState = "none"
       \/ InitSaveErrorCard /\ repState = "none"
       \/ InitGetBasicFormatFileURL
    /\ pc = "start"
    /\ isValid = "unset"
    /\ calls = <<>>
    /\ responses = <<>>
    /\ failed = {}
    /\ repInfo = NoInfo
    /\ info = NoInfo
    /\ pollLog = <<>>
    /\ result = NoResult
    /\ metadata = "unset"
    /\ returned = NoReturn
    /\ promises = <<>>
    /\ callerList = args.dataList

(***************************************************************************)
(* The entry point: module.exports.handler (index.js).                     *)
(***************************************************************************)
Response(statusCode, text) == [statusCode |-> statusCode, body |-> text]

Callback(r) == responses' = Append(responses, r)

GetMetadataCall(w) ==
    [ api |-> "getMetadata", fileId |-> w.fileId, scope |-> "enterprise",
      template |-> "eventSubmissionDocument" ]

SetMetadataCall(w) ==
    [ api |-> "setMetadata", fileId |-> w.fileId, scope |-> "enterprise",
      template |-> "eventDetails", participantCount |-> 500 ]

RETRY_TEXT == "Something went wrong. The process will retry via exponential backoff."
ERROR_CARD_TEXT == "Something went wrong. It will retry again in a few minutes."

\* a handler that takes every returned value of the validation as a pass
SignatureAccepted_AnyResult(v) == TRUE

\* line 13: if(isValid)
SignatureAccepted(v) == v = "true"

\* a handler that updates whenever the template carries a document type
IsEventPlan_AnyType(documentType) == documentType # UNDEF

\* line 64: if (metadata.documentType === 'Event Plan')
IsEventPlan(documentType) == documentType = "Event Plan"

\* a catch block that only logs and answers, writing no error card
OuterCatch_NoCard(w) == <<>>

\* line 91: the calls the top-level catch block issues
OuterCatch(w) == SaveErrorCard(w, UNKNOWN, ERROR_CARD_TEXT, UNDEF)

\* lines 8-9: the reader and the writer are built before the try block, so an
\* error thrown here rejects the handler's promise and no catch sees it
HandlerConstruct ==
    /\ op = "handler" /\ pc = "start"
    /\ ctor' = FilesReader(body)
    /\ pc' = IF FilesReader(body).built THEN "validate" ELSE "rejected"
    /\ failed' = IF FilesReader(body).built THEN failed ELSE failed \cup {"FilesReader"}
    /\ UNCHANGED <<op, body, args, isValid, calls, responses, pollVars, metadata, libVars>>

\* lines 12-13 and 86-89; a true result runs on to the getMetadata call of
\* line 59, an exception runs to the saveErrorCard call of line 91
ValidateWebhookMessage ==
    /\ op = "handler" /\ pc = "validate"
    /\ \E v \in {"true", "false", "throw"} :
        /\ isValid' = v
        /\ IF v = "throw"
           THEN /\ calls' = calls \o OuterCatch(SkillsWriter(ctor.context))
                /\ pc' = "awaitSaveErrorCard"
                /\ failed' = failed \cup {"validateWebhookMessage"}
                /\ UNCHANGED responses
           ELSE IF SignatureAccepted(v)
           THEN /\ calls' = Append(calls, GetMetadataCall(SkillsWriter(ctor.context)))
                /\ pc' = "awaitGetMetadata"
                /\ UNCHANGED <<responses, failed>>
           ELSE /\ Callback(Response(401, "Unauthorized"))
                /\ pc' = "done"
                /\ UNCHANGED <<calls, failed>>
    /\ UNCHANGED <<op, body, args, ctor, pollVars, metadata, libVars>>

\* lines 59-84: the awaited getMetadata settles
GetMetadataSettles ==
    /\ op = "handler" /\ pc = "awaitGetMetadata"
    /\ \E documentType \in {"Event Plan", "Budget", UNDEF, "rejected"} :
        /\ metadata' = documentType
        /\ IF documentType = "rejected"
           THEN /\ Callback(Response(400, RETRY_TEXT))
                /\ pc' = "done"
                /\ failed' = failed \cup {"getMetadata"}
                /\ UNCHANGED calls
           ELSE IF IsEventPlan(documentType)
           THEN /\ calls' = Append(calls, SetMetadataCall(SkillsWriter(ctor.context)))
                /\ pc' = "awaitSetMetadata"
                /\ UNCHANGED <<responses, failed>>
           ELSE /\ Callback(Response(200, "Not a Event Submissions Document"))
                /\ pc' = "done"
                /\ UNCHANGED <<calls, failed>>
    /\ UNCHANGED <<op, body, args, ctor, isValid, pollVars, libVars>>

\* lines 66-84: the awaited setMetadata settles
SetMetadataSettles ==
    /\ op = "handler" /\ pc = "awaitSetMetadata"
    /\ \E ok \in BOOLEAN :
        IF ok THEN /\ Callback(Response(200, "Box event was processed by skill"))
                   /\ UNCHANGED failed
              ELSE /\ Callback(Response(400, RETRY_TEXT))
                   /\ failed' = failed \cup {"setMetadata"}
    /\ pc' = "done"
    /\ UNCHANGED <<op, body, args, ctor, isValid, calls, pollVars, metadata, libVars>>

\* lines 91-95: the awaited saveErrorCard settles; when it rejects, the await
\* throws inside the catch block and the handler's promise rejects
SaveErrorCardSettles ==
    /\ op = "handler" /\ pc = "awaitSaveErrorCard"
    /\ \E ok \in BOOLEAN :
        IF ok THEN /\ Callback(Response(400, RETRY_TEXT))
                   /\ pc' = "done"
                   /\ UNCHANGED failed
              ELSE /\ UNCHANGED responses
                   /\ pc' = "rejected"
                   /\ failed' = failed \cup {"saveErrorCard"}
    /\ UNCHANGED <<op, body, args, ctor, isValid, calls, pollVars, metadata, libVars>>

(***************************************************************************)
(* The library's writer functions called directly.                         *)
(***************************************************************************)
CallSaveDataCards ==
    /\ op = "saveDataCards" /\ pc = "start"
    /\ calls' = calls \o SaveDataCards(SkillsWriter(ctor.context),
                             args.cards, args.status, args.usage)
    /\ pc' = "awaitPut"
    /\ UNCHANGED <<op, body, args, ctor, isValid, responses, failed, pollVars, metadata, libVars>>

CallSaveProcessingCard ==
    /\ op = "saveProcessingCard" /\ pc = "start"
    /\ calls' = calls \o SaveProcessingCard(SkillsWriter(ctor.context))
    /\ pc' = "awaitPut"
    /\ UNCHANGED <<op, body, args, ctor, isValid, responses, failed, pollVars, metadata, libVars>>

CallSaveErrorCard ==
    /\ op = "saveErrorCard" /\ pc = "start"
    /\ calls' = calls \o SaveErrorCard(SkillsWriter(ctor.context),
                             args.error, args.message, args.failureType)
    /\ pc' = "awaitPut"
    /\ UNCHANGED <<op, body, args, ctor, isValid, responses, failed, pollVars, metadata, libVars>>

\* the promise putData returned settles
PutSettles ==
    /\ pc = "awaitPut"
    /\ pc' \in {"resolved", "rejected"}
    /\ UNCHANGED <<op, body, args, ctor, isValid, calls, responses, failed, pollVars, metadata, libVars>>

(***************************************************************************)
(* The constructor's classification of a file named args.fileName.         *)
(***************************************************************************)
\* lines 137-138: this.fileFormat and this.fileType
NewFilesReader ==
    /\ op = "FilesReader" /\ pc = "start"
    /\ returned' = [ fileFormat |-> GetFileFormat(args.fileName),
                     fileType   |-> GetFileType(GetFileFormat(args.fileName)) ]
    /\ pc' = "returned"
    /\ UNCHANGED <<runVars, handlerVars, pollVars, promises, callerList>>

(***************************************************************************)
(* The card constructors of SkillsWriter called directly.                  *)
(***************************************************************************)
CallCreateMetadataCard ==
    /\ op = "createMetadataCard" /\ pc = "start"
    /\ returned' = CreateMetadataCard(SkillsWriter(ctor.context), args.type,
                        args.title[1], StatusObj(UNDEF, UNDEF), args.entries,
                        args.duration)
    /\ pc' = "returned"
    /\ UNCHANGED <<runVars, handlerVars, pollVars, promises, callerList>>

CallCreateTopicsCard ==
    /\ op = "createTopicsCard" /\ pc = "start"
    /\ returned' = CreateTopicsCard(SkillsWriter(ctor.context), callerList,
                        args.duration, args.title)
    /\ callerList' = CallerListAfter(callerList)
    /\ pc' = "returned"
    /\ UNCHANGED <<runVars, handlerVars, pollVars, promises>>

CallCreateTranscriptsCard ==
    /\ op = "createTranscriptsCard" /\ pc = "start"
    /\ returned' = CreateTranscriptsCard(SkillsWriter(ctor.context), callerList,
                        args.duration, args.title)
    /\ callerList' = CallerListAfter(callerList)
    /\ pc' = "returned"
    /\ UNCHANGED <<runVars, handlerVars, pollVars, promises>>

\* lines 523-545: the list is processed, the card built and one image chain
\* started per processed entry
CallCreateFacesCard ==
    /\ op = "createFacesCard" /\ pc = "start"
    /\ promises' = DataURIPromises(ProcessDataList(callerList, NoValue))
    /\ callerList' = CallerListAfter(callerList)
    /\ pc' = "awaitAll"
    /\ UNCHANGED <<runVars, handlerVars, pollVars, returned>>

\* one image chain settles
ImageSettles ==
    /\ op = "createFacesCard" /\ pc = "awaitAll"
    /\ \E i \in DOMAIN promises :
           /\ promises[i].state = "pending"
           /\ \E outcome \in JimpOutcomes(promises[i].read) :
                  promises' = [promises EXCEPT ![i] = Caught(promises[i], outcome)]
    /\ UNCHANGED <<runVars, pc, handlerVars, pollVars, returned, callerList>>

\* lines 548-553: Promise.all settles: it rejects as soon as one promise is
\* rejected, and runs the assignment once all of them are fulfilled
PromiseAllSettles ==
    /\ op = "createFacesCard" /\ pc = "awaitAll"
    /\ \A i \in DOMAIN promises :
           promises[i].state = "pending" =>
               \E j \in DOMAIN promises : promises[j].state = "rejected"
    /\ IF \E i \in DOMAIN promises : promises[i].state = "rejected"
       THEN pc' = "rejected" /\ UNCHANGED returned
       ELSE /\ pc' = "returned"
            /\ returned' = CreateFacesCard(SkillsWriter(ctor.context), callerList,
                                args.duration, args.title, promises)
    /\ UNCHANGED <<runVars, handlerVars, pollVars, promises, callerList>>

(***************************************************************************)
(* FilesReader.prototype.getBasicFormatFileURL called directly.            *)
(***************************************************************************)
Polling == op = "getBasicFormatFileURL"

\* the platform generates the representation: its state moves on until it
\* is final
RepresentationAdvances ==
    /\ Polling /\ pc \in {"start", "awaitReps", "awaitInfo", "delaying"}
    /\ repState \in InProgress
    /\ repState' \in RepStates \ {repState, "none"}
    /\ UNCHANGED <<runVars, pc, handlerVars, repInfo, info, pollLog, result, libVars>>

\* lines 289-290: the representation info of the file is requested
GetRepresentationInfo ==
    /\ Polling /\ pc = "start"
    /\ pollLog' = Logged(<<Query("getRepresentationInfo")>>)
    /\ pc' = "awaitReps"
    /\ UNCHANGED <<runVars, handlerVars, repState, repInfo, info, result, libVars>>

\* lines 291-318 (every request is taken to be answered; a request that fails
\* rejects with the client's own error): the answer arrives with no entry, or with one entry in the
\* representation's current state; a state in progress starts the poll, whose
\* first query (line 198) is issued at once
RepsSettles ==
    /\ Polling /\ pc = "awaitReps"
    /\ \/ /\ pollLog' = Logged(<<Answer(NoInfo)>>)
          /\ result' = Rejected(FILE_PROCESSING_ERROR)
          /\ pc' = "rejected"
          /\ UNCHANGED repInfo
       \/ \E t \in Templates :
          /\ repInfo' = Info(repState, t)
          /\ CASE FirstSwitch(repState) = "return" ->
                    /\ pollLog' = Logged(<<Answer(Info(repState, t))>>)
                    /\ result' = Resolved(
                           BasicFormatURL(t, ctor.context.fileReadToken))
                    /\ pc' = "resolved"
               [] FirstSwitch(repState) = "throw" ->
                    /\ pollLog' = Logged(<<Answer(Info(repState, t))>>)
                    /\ result' = Rejected(FILE_PROCESSING_ERROR)
                    /\ pc' = "rejected"
               [] FirstSwitch(repState) = "poll" ->
                    /\ pollLog' = Logged(<<Answer(Info(repState, t)), Query("get")>>)
                    /\ pc' = "awaitInfo"
                    /\ UNCHANGED result
    /\ UNCHANGED <<runVars, handlerVars, repState, info, libVars>>

\* lines 198-215: an info response arrives, in the representation's current
\* state; lines 307-313 run when the poll returns
InfoSettles ==
    /\ Polling /\ pc = "awaitInfo"
    /\ \E t \in Templates :
        /\ info' = Info(repState, t)
        /\ CASE PollSwitch(repState) = "return" ->
                  /\ pollLog' = Logged(<<Answer(Info(repState, t))>>)
                  /\ result' = AfterPoll(repInfo, Info(repState, t),
                                         ctor.context.fileReadToken)
                  /\ pc' = result'.kind
             [] PollSwitch(repState) = "delay" ->
                  /\ pollLog' = Logged(<<Answer(Info(repState, t)), Delay>>)
                  /\ pc' = "delaying"
                  /\ UNCHANGED result
             [] PollSwitch(repState) = "throw" ->
                  /\ pollLog' = Logged(<<Answer(Info(repState, t))>>)
                  /\ result' = Rejected(FILE_PROCESSING_ERROR)
                  /\ pc' = "rejected"
    /\ UNCHANGED <<runVars, handlerVars, repState, repInfo, libVars>>

\* line 210: the 1000 ms delay is over and the info URL is queried again
DelayElapses ==
    /\ Polling /\ pc = "delaying"
    /\ pollLog' = Logged(<<Query("get")>>)
    /\ pc' = "awaitInfo"
    /\ UNCHANGED <<runVars, handlerVars, repState, repInfo, info, result, libVars>>

Next ==
    \/ RepresentationAdvances
    \/ GetRepresentationInfo
    \/ RepsSettles
    \/ InfoSettles
    \/ DelayElapses
    \/ HandlerConstruct
    \/ ValidateWebhookMessage
    \/ GetMetadataSettles
    \/ SetMetadataSettles
    \/ SaveErrorCardSettles
    \/ CallSaveDataCards
    \/ CallSaveProcessingCard
    \/ CallSaveErrorCard
    \/ PutSettles
    \/ NewFilesReader
    \/ CallCreateMetadataCard
    \/ CallCreateTopicsCard
    \/ CallCreateTranscriptsCard
    \/ CallCreateFacesCard
    \/ ImageSettles
    \/ PromiseAllSettles

Spec == Init /\ [][Next]_vars

\* The event loop runs every settled promise's callback and every expired
\* timer, and the platform answers every query.
LiveSpec ==
    /\ Spec
    /\ WF_vars(GetRepresentationInfo)
    /\ WF_vars(RepsSettles)
    /\ WF_vars(InfoSettles)
    /\ WF_vars(DelayElapses)

(***************************************************************************)
(* Properties.                                                             *)
(***************************************************************************)
\* the PUTs to the invocation endpoint among the calls issued so far
Puts == SelectSeq(calls, LAMBDA c : c.api = "PUT")

StatusCodes == { responses[i].statusCode : i \in DOMAIN responses }

HandlerEnded == op = "handler" /\ pc \in {"done", "rejected"}

\* C1: every invocation of the handler delivers exactly one response through
\* the callback: 401 exactly when the signature validation returned false,
\* 400 when any processing step failed (parsing the event, validation
\* raising, the metadata read or update, the error-card write), 200 otherwise.
C1_ExactlyOneResponse ==
    HandlerEnded =>
        /\ Len(responses) = 1
        /\ responses[1].statusCode =
               IF isValid = "false" THEN 401
               ELSE IF failed # {} THEN 400
               ELSE 200

\* C2: when the signature validation returns false the handler issues no
\* outbound call at all and its only response is 401; and a 401 response is
\* given on no other path.
C2_UnauthorizedShortCircuits ==
    op = "handler" =>
        /\ isValid = "false" =>
               /\ calls = <<>>
               /\ pc = "done"
               /\ Len(responses) = 1
               /\ responses[1].statusCode = 401
        /\ 401 \in StatusCodes => isValid = "false"

C2_Witness ==
    /\ op = "handler" /\ isValid = "false" /\ pc = "done"
    /\ responses = <<Response(401, "Unauthorized")>>

\* C3 as stated: any error raised by the signature validation or by the
\* metadata read/update that follows it leads to exactly one error-card
\* submission (one PUT with a single card) and then a 400 response.  (Stated
\* for the invocations in which no error-card write fails.)
C3_EveryErrorWritesErrorCard ==
    ( HandlerEnded
      /\ "saveErrorCard" \notin failed
      /\ failed \cap {"validateWebhookMessage", "getMetadata", "setMetadata"} # {} )
    =>  /\ Len(Puts) = 1
        /\ Len(Puts[1].body.cards) = 1
        /\ Len(responses) = 1
        /\ responses[1].statusCode = 400

\* C3 as amended: an error raised by the signature validation is caught at the
\* top level and leads to exactly one error-card submission attempt (one PUT
\* carrying a single error card), never retried; no response is sent while
\* that attempt is pending, a 400 follows when the attempt succeeds and no
\* response at all is delivered when the attempt itself fails.  An error of
\* the metadata read or update is caught by the inner handler and answered
\* 400 with no error-card submission.  No other path submits an error card.
C3_ErrorCardOnlyFromTopLevelCatch ==
    op = "handler" =>
        /\ Len(Puts) <= 1
        /\ Puts # <<>> => "validateWebhookMessage" \in failed
        /\ "validateWebhookMessage" \in failed =>
               /\ Len(Puts) = 1
               /\ Len(Puts[1].body.cards) = 1
               /\ Puts[1].body.cards[1].skill_card_title.message = cardTitle.ERROR
               /\ Puts[1].body.status = "permanent_failure"
               /\ pc \in {"awaitSaveErrorCard", "done", "rejected"}
               /\ pc = "awaitSaveErrorCard" => responses = <<>>
               /\ pc = "done" =>
                      /\ "saveErrorCard" \notin failed
                      /\ Len(responses) = 1
                      /\ responses[1].statusCode = 400
               /\ pc = "rejected" =>
                      /\ "saveErrorCard" \in failed
                      /\ responses = <<>>
        /\ failed \cap {"getMetadata", "setMetadata"} # {} =>
               /\ Puts = <<>>
               /\ pc = "done"
               /\ Len(responses) = 1
               /\ responses[1].statusCode = 400

C3_Witness ==
    /\ op = "handler" /\ pc = "done"
    /\ failed = {"validateWebhookMessage"}
    /\ Len(Puts) = 1
    /\ Len(responses) = 1 /\ responses[1].statusCode = 400

\* the fields the event must carry
RequiredFields ==
    { "skill.id", "source.id", "source.name", "source.size",
      "token.read.access_token", "token.write.access_token" }

\* C4: constructing a FilesReader from a body in which a required field is
\* absent fails with the invalid-event error and produces no FileContext; a
\* body with all required fields always produces a FileContext.
C4_MissingFieldIsInvalidEvent ==
    (op = "handler" /\ pc # "start" /\ body.json # "malformed") =>
        IF RequiredFields \subseteq body.has
        THEN ctor.built /\ ctor.error = "none"
        ELSE ~ctor.built /\ ctor.error = INVALID_EVENT

\* the statuses the claim enumerates, and the values the enumeration holds
ClaimedStatuses ==
    { "invoked", "processing", "pending", "transient_failure",
      "permanent_failure", "success" }
EnumeratedStatuses ==
    { "invoked", "processing", "skills_pending_status", "transient_failure",
      "permanent_failure", "success" }

SaveDataCardsCalled == op = "saveDataCards" /\ pc # "start"

\* C8 as stated: saveDataCards submits exactly one PUT whose body status is
\* the supplied status when that is one of invoked, processing, pending,
\* transient_failure, permanent_failure, success, and success otherwise.
C8_StatusKeptForNamedStatuses ==
    SaveDataCardsCalled =>
        /\ Len(calls) = 1
        /\ calls[1].api = "PUT"
        /\ calls[1].body.status =
               IF args.status \in ClaimedStatuses THEN args.status ELSE "success"

\* C8 as amended: saveDataCards submits exactly one PUT whose body status is
\* the supplied status when that is one of the values of the enumeration
\* (invoked, processing, skills_pending_status, transient_failure,
\* permanent_failure, success), and success for every other supplied value,
\* including the string pending and a missing status.
C8_StatusKeptForEnumValues ==
    SaveDataCardsCalled =>
        /\ Len(calls) = 1
        /\ calls[1].api = "PUT"
        /\ calls[1].body.cards = args.cards
        /\ calls[1].body.status =
               IF args.status \in EnumeratedStatuses THEN args.status ELSE "success"

C8_Witness ==
    /\ SaveDataCardsCalled
    /\ args.status = "pending"
    /\ Len(calls) = 1 /\ calls[1].body.status = "success"

\* C9: in every body submitted a usage record is attached iff the submitted
\* status is success; when attached it is the caller's usage if its unit is
\* one of files, seconds, pages, words and its value is an integer, and
\* {unit: files, value: 1} otherwise; for every other status usage is null.
C9_UsageOnlyOnSuccess ==
    \A i \in DOMAIN Puts :
        LET b == Puts[i].body
            given == IF op = "saveDataCards" THEN args.usage ELSE UndefinedUsage
            wellFormed ==
                /\ given.kind = "object"
                /\ given.unit \in {"files", "seconds", "pages", "words"}
                /\ given.value.type = "number"
                /\ given.value.tenths % 10 = 0
        IN  /\ (b.usage.kind = "object") <=> (b.status = "success")
            /\ b.status # "success" => b.usage.kind = "null"
            /\ b.status = "success" =>
                   b.usage = IF wellFormed THEN given
                             ELSE [ kind |-> "object", unit |-> "files",
                                    value |-> [type |-> "number", tenths |-> 10] ]

C9_Witness ==
    /\ SaveDataCardsCalled
    /\ args.status = UNDEF
    /\ args.usage.unit = "pages" /\ args.usage.value = NumberValue(30)
    /\ Len(Puts) = 1
    /\ Puts[1].body.usage = args.usage

\* C10: saveErrorCard submits exactly one card; its status code is
\* custom_error, with the custom message, whenever a (non-empty) custom
\* message is supplied, whatever the error code; otherwise the supplied error
\* code if it is in the closed enumeration and the unknown-error code if not.
\* The submitted invocation status is transient_failure only when the caller
\* passes transient_failure as failure type, permanent_failure otherwise.
C10_ErrorCardCodeAndStatus ==
    (op = "saveErrorCard" /\ pc # "start") =>
        /\ Len(calls) = 1
        /\ calls[1].api = "PUT"
        /\ Len(calls[1].body.cards) = 1
        /\ LET st == calls[1].body.cards[1].status
           IN  IF args.message \notin {UNDEF, ""}
               THEN st.code = "custom_error" /\ st.message = args.message
               ELSE /\ st.message = UNDEF
                    /\ st.code = IF args.error \in SkillsErrorEnum
                                 THEN args.error ELSE "skills_unknown_error"
        /\ calls[1].body.status =
               IF args.failureType = "transient_failure"
               THEN "transient_failure" ELSE "permanent_failure"

C10_Witness ==
    /\ op = "saveErrorCard" /\ pc # "start"
    /\ args.error = "skills_billing_error"
    /\ args.message \notin {UNDEF, ""}
    /\ args.failureType = "transient_failure"
    /\ Len(calls) = 1
    /\ calls[1].body.cards[1].status.code = "custom_error"
    /\ calls[1].body.status = "transient_failure"

\* the part of the log that belongs to pollRepresentationInfo: what follows
\* the getRepresentationInfo query and its answer
PollLog == SubSeq(pollLog, 3, Len(pollLog))
LogComplete == Len(pollLog) < MaxLog
Count(log, P(_)) == Cardinality({ j \in DOMAIN log : P(log[j]) })
IsGet(e) == e.ev = "get"
IsDelay(e) == e.ev = "delay"
IsInProgressAnswer(e) == e.ev = "response" /\ e.state \in {"none", "pending"}
AnswerStates(log) ==
    LET answers == SelectSeq(log, LAMBDA e : e.ev = "response")
    IN  [ j \in DOMAIN answers |-> answers[j].state ]

FailureAnswer(e) ==
    e.ev = "response" /\ e.state \notin {"none", "pending", "viewable", "success"}

PollEnded == pc \in {"resolved", "rejected"}

SetMetadataCalls == SelectSeq(calls, LAMBDA c : c.api = "setMetadata")
ProcessedResponses ==
    { i \in DOMAIN responses : responses[i].body = "Box event was processed by skill" }

\* C16: in the handler the metadata update is issued only after the signature
\* validation returned true and the metadata read returned documentType
\* 'Event Plan', and at most once; the 200 response 'Box event was processed
\* by skill' is sent only after that update completed successfully; when the
\* read returns any other documentType the handler responds 200 and issues no
\* write.
C16_UpdateOnlyForEventPlan ==
    op = "handler" =>
        /\ Len(SetMetadataCalls) <= 1
        /\ SetMetadataCalls # <<>> =>
               /\ isValid = "true"
               /\ metadata = "Event Plan"
               /\ Len(calls) = 2
               /\ calls[1].api = "getMetadata"
               /\ calls[2].api = "setMetadata"
               /\ calls[2].template = "eventDetails"
        /\ pc = "awaitSetMetadata" => responses = <<>>
        /\ \A i \in ProcessedResponses :
               /\ responses[i].statusCode = 200
               /\ Len(responses) = 1
               /\ Len(SetMetadataCalls) = 1
               /\ "setMetadata" \notin failed
               /\ pc = "done"
        /\ metadata \notin {"unset", "rejected", "Event Plan"} =>
               /\ Len(responses) = 1
               /\ responses[1].statusCode = 200
               /\ Len(calls) = 1
               /\ calls[1].api = "getMetadata"

C16_Witness ==
    /\ op = "handler" /\ pc = "done"
    /\ metadata = "Event Plan"
    /\ Len(SetMetadataCalls) = 1
    /\ responses = <<Response(200, "Box event was processed by skill")>>


ReplaceAll(s, from, to) == [ i \in DOMAIN s |-> IF s[i] = from THEN to ELSE s[i] ]

\* C15: createMetadataCard gives the card the title code 'skills_' followed by
\* the lowercased title with every space replaced by an underscore, whatever
\* the number of spaces in the title.
C15_TitleCodeReplacesEverySpace ==
    (op = "createMetadataCard" /\ pc = "returned") =>
        returned.skill_card_title.code =
            <<"s","k","i","l","l","s","_">>
                \o ReplaceAll(ToLowerCase(args.title[1]), " ", "_")

ListCardOps == {"createTopicsCard", "createTranscriptsCard", "createFacesCard"}

\* the entries whose text has a character that is not white space
KeptIndices(l) ==
    { i \in DOMAIN l :
        /\ l[i].text # Absent
        /\ \E k \in DOMAIN l[i].text[1] : l[i].text[1][k] \notin WhiteSpace }

NoOuterWhiteSpace(s) ==
    s # <<>> /\ s[1] \notin WhiteSpace /\ s[Len(s)] \notin WhiteSpace

\* C13: the entries of a card built by createTopicsCard, createTranscriptsCard
\* or createFacesCard are exactly the input entries whose text is non-empty
\* after trimming, in input order; each carries the trimmed text and the type
\* image when its image_url is a string and text otherwise; no entry has empty
\* or whitespace-only text; the caller's list is left as it was.
C13_EntriesNormalised ==
    (op \in ListCardOps /\ pc = "returned") =>
        /\ returned.entries # Absent
        /\ LET in == args.dataList
               out == returned.entries[1]
               kept == KeptIndices(in)
           IN  /\ Len(out) = Cardinality(kept)
               /\ \E f \in [DOMAIN out -> kept] :
                      /\ \A j, k \in DOMAIN out : j < k => f[j] < f[k]
                      /\ \A j \in DOMAIN out :
                             /\ out[j].text = Present(Trim(in[f[j]].text[1]))
                             /\ out[j].type = IF in[f[j]].image_url.t = "string"
                                              THEN "image" ELSE "text"
               /\ \A j \in DOMAIN out : NoOuterWhiteSpace(out[j].text[1])
        /\ callerList = args.dataList

C13_Witness ==
    /\ op = "createTopicsCard" /\ pc = "returned"
    /\ Len(args.dataList) = 2
    /\ args.dataList[1].text = Present(<<" ","\t","\n">>)
    /\ args.dataList[2].text = Present(<<"\t","d">>)
    /\ Len(returned.entries[1]) = 1
    /\ returned.entries[1][1].text = Present(<<"d">>)
    /\ returned.entries[1][1].type = "image"


FileTypeSettled == op = "FilesReader" /\ pc = "returned"

\* the characters after the last "." of the name's last path portion, or
\* nothing when that portion has no "." other than a leading one
Extension(fileName) ==
    LET base == BaseName(fileName)
        dots == { i \in DOMAIN base : base[i] = "." } \ {1}
    IN  IF dots = {} THEN <<>> ELSE SubSeq(base, Max(dots) + 1, Len(base))

\* C14: the file type is AUDIO when the lowercase extension is in the audio
\* set, else IMAGE when in the image set, else VIDEO when in the video set,
\* else DOCUMENT; the three sets are pairwise disjoint, so each type is given
\* exactly to the extensions of its own set whatever the order of the checks;
\* every other extension, an absent one included, gives DOCUMENT.
C14_FileTypeFirstMatch ==
    FileTypeSettled =>
        LET ext == ToLowerCase(Extension(args.fileName))
            type == returned.fileType
        IN  /\ returned.fileFormat = ext
            /\ type = IF ext \in boxAudioFormats THEN "AUDIO"
                      ELSE IF ext \in boxImageFormats THEN "IMAGE"
                      ELSE IF ext \in boxVideoFormats THEN "VIDEO"
                      ELSE "DOCUMENT"
            /\ boxAudioFormats \cap boxImageFormats = {}
            /\ boxAudioFormats \cap boxVideoFormats = {}
            /\ boxImageFormats \cap boxVideoFormats = {}
            /\ type = "AUDIO" <=> ext \in boxAudioFormats
            /\ type = "IMAGE" <=> ext \in boxImageFormats
            /\ type = "VIDEO" <=> ext \in boxVideoFormats
            /\ type = "DOCUMENT" <=>
                   ext \notin boxAudioFormats \cup boxImageFormats \cup boxVideoFormats
            /\ ext = <<>> => type = "DOCUMENT"

C14_Witness ==
    /\ FileTypeSettled
    /\ args.fileName = <<"a",".","J","P","E","G">>
    /\ returned.fileFormat = <<"j","p","e","g">>
    /\ returned.fileType = "IMAGE"


FacesCalled == op = "createFacesCard" /\ pc # "start"
FacesReturned == op = "createFacesCard" /\ pc = "returned"

\* the processed copy of the i-th kept entry, before any image is assigned back
ProcessedEntry(i) == ProcessDataList(args.dataList, NoValue)[i]

\* C11: createFacesCard never rejects; its promise resolves only when every
\* image operation has settled; the card holds every entry with non-empty text,
\* in input order; an entry whose image operation failed keeps its image URL.
C11_FacesCardSurvivesImageFailures ==
    op = "createFacesCard" =>
        /\ pc # "rejected"
        /\ \A i \in DOMAIN promises : promises[i].state # "rejected"
        /\ pc = "returned" =>
               LET out == returned.entries[1]
               IN  /\ \A i \in DOMAIN promises : promises[i].state = "fulfilled"
                   /\ Len(promises) = Cardinality(KeptIndices(args.dataList))
                   /\ Len(out) = Len(promises)
                   /\ \A i \in DOMAIN out :
                          /\ out[i].text = ProcessedEntry(i).text
                          /\ promises[i].outcome = "error" =>
                                 out[i].image_url = ProcessedEntry(i).image_url

C11_Witness ==
    /\ FacesReturned
    /\ Len(args.dataList) = 2 /\ Len(promises) = 2
    /\ \A i \in DOMAIN promises : promises[i].outcome = "error"
    /\ returned.entries[1][1].image_url = ImageUrl1
    /\ returned.entries[1][2].image_url = ImageUrl2

\* C12: for every entry with an image URL the image read is the one at the
\* entry's own URL, and when it was fetched and resized the entry's URL in the
\* returned card is the data URI of the 45 x 45 image.
C12_OwnImageFetchedAndInlined ==
    FacesCalled =>
        \A i \in DOMAIN promises :
            ProcessedEntry(i).image_url.t = "string" =>
                /\ promises[i].read = ProcessedEntry(i).image_url
                /\ (pc = "returned" /\ promises[i].outcome = "dataURI") =>
                       returned.entries[1][i].image_url
                           = DataURI(ProcessedEntry(i).image_url)

=============================================================================
